---- MODULE Spec2Model ----
(***************************************************************************)
(* Model of the multi-tool MCP agent (src/agent.py) and of the tool        *)
(* provider it talks to (src/server.py).                                   *)
(*                                                                         *)
(* Text is modelled character by character: a Python str is a TLA+ string, *)
(* read with Len, SubSeq and \o, and every str / re operation the agent    *)
(* uses is an operator that computes what the Python operation computes.   *)
(***************************************************************************)
EXTENDS Integers, Sequences, FiniteSets

(***************************************************************************)
(* Python str primitives                                                   *)
(***************************************************************************)

\* The i-th character of s as a one-character string, "" past either end.
Char(s, i) == IF i >= 1 /\ i <= Len(s) THEN SubSeq(s, i, i) ELSE ""

\* s[i-1:] in Python.
From(s, i) == IF i <= Len(s) THEN SubSeq(s, i, Len(s)) ELSE ""

LowerLetters == <<"a","b","c","d","e","f","g","h","i","j","k","l","m",
                  "n","o","p","q","r","s","t","u","v","w","x","y","z">>

UpperLetters == <<"A","B","C","D","E","F","G","H","I","J","K","L","M",
                  "N","O","P","Q","R","S","T","U","V","W","X","Y","Z">>

Digits == <<"0","1","2","3","4","5","6","7","8","9">>

Range(f) == { f[x] : x \in DOMAIN f }

IsLower(c) == c \in Range(LowerLetters)
IsUpper(c) == c \in Range(UpperLetters)
IsAlpha(c) == IsLower(c) \/ IsUpper(c)
IsDigit(c) == c \in Range(Digits)

\* \s of the re module, and the characters str.strip() removes.
IsSpace(c) == c \in {" ", "\t", "\n", "\r"}

\* \w of the re module.
IsWord(c) == IsAlpha(c) \/ IsDigit(c) \/ c = "_"

LetterIndex(c, letters) == CHOOSE k \in DOMAIN letters : letters[k] = c

LowerChar(c) == IF IsUpper(c) THEN LowerLetters[LetterIndex(c, UpperLetters)] ELSE c
UpperChar(c) == IF IsLower(c) THEN UpperLetters[LetterIndex(c, LowerLetters)] ELSE c

RECURSIVE MapLower(_, _)
MapLower(s, i) ==
    IF i > Len(s) THEN "" ELSE LowerChar(Char(s, i)) \o MapLower(s, i + 1)

\* str.lower()
Lower(s) == MapLower(s, 1)

\* str.capitalize(): first character upper-cased, the rest lower-cased.
Capitalize(s) ==
    IF s = "" THEN "" ELSE UpperChar(Char(s, 1)) \o Lower(From(s, 2))

RECURSIVE MapTitle(_, _, _)
MapTitle(s, i, prevCased) ==
    IF i > Len(s) THEN ""
    ELSE LET c == Char(s, i)
         IN  (IF prevCased THEN LowerChar(c) ELSE UpperChar(c))
                 \o MapTitle(s, i + 1, IsAlpha(c))

\* str.title(): a letter is upper-cased after a non-letter, lower-cased after a letter.
Title(s) == MapTitle(s, 1, FALSE)

\* Index of the first / last non-space character (0 when there is none).
FirstNonSpace(s) ==
    IF \A i \in 1..Len(s) : IsSpace(Char(s, i)) THEN 0
    ELSE CHOOSE i \in 1..Len(s) :
            /\ ~IsSpace(Char(s, i))
            /\ \A j \in 1..(i - 1) : IsSpace(Char(s, j))

\* str.strip()
Strip(s) ==
    LET last == CHOOSE k \in 1..Len(s) :
                    /\ ~IsSpace(Char(s, k))
                    /\ \A j \in (k + 1)..Len(s) : IsSpace(Char(s, j))
    IN  IF FirstNonSpace(s) = 0 THEN "" ELSE SubSeq(s, FirstNonSpace(s), last)

\* sub == s[i-1 : i-1+len(sub)]
MatchAt(s, i, sub) ==
    /\ i >= 1
    /\ i + Len(sub) - 1 <= Len(s)
    /\ (sub = "" \/ SubSeq(s, i, i + Len(sub) - 1) = sub)

\* `sub in s`
Contains(s, sub) == \E i \in 1..(Len(s) + 1) : MatchAt(s, i, sub)

\* any(k in s for k in keys)
ContainsAny(s, keys) == \E k \in keys : Contains(s, k)

RECURSIVE SplitFrom(_, _, _)
SplitFrom(s, i, start) ==
    IF i > Len(s) THEN << SubSeq(s, start, Len(s)) >>
    ELSE IF Char(s, i) = ","
         THEN << SubSeq(s, start, i - 1) >> \o SplitFrom(s, i + 1, i + 1)
         ELSE SplitFrom(s, i + 1, start)

\* s.split(",")
SplitComma(s) == SplitFrom(s, 1, 1)

RECURSIVE JoinFrom(_, _, _)
JoinFrom(strs, k, sep) ==
    IF k > Len(strs) THEN ""
    ELSE IF k = Len(strs) THEN strs[k]
         ELSE strs[k] \o sep \o JoinFrom(strs, k + 1, sep)

\* sep.join(strs)
Join(strs, sep) == JoinFrom(strs, 1, sep)

(***************************************************************************)
(* Pattern matching of the agent (the re calls of src/agent.py)            *)
(***************************************************************************)

\* The character classes of the patterns: \s, \w, a digit, [a-zA-Z\s], and
\* the characters a JSON string holds unescaped.
InClass(class, c) ==
    CASE class = "space" -> IsSpace(c)
      [] class = "word"  -> IsWord(c)
      [] class = "digit" -> IsDigit(c)
      [] class = "city"  -> IsAlpha(c) \/ IsSpace(c)
      [] class = "plain" -> c \notin { "\"", "\\", "\n", "\t", "\r" }

\* The last index of the longest run of characters of a class that starts
\* at k (k - 1 when the run is empty): a greedy repetition of the re module.
RunEnd(s, k, class) ==
    CHOOSE e \in (k - 1)..Len(s) :
        /\ \A j \in k..e : InClass(class, Char(s, j))
        /\ (e = Len(s) \/ ~InClass(class, Char(s, e + 1)))

\* The smallest element of a non-empty set of positions (re.search is leftmost).
Leftmost(S) == CHOOSE i \in S : \A j \in S : i <= j

\* re.fullmatch(r"(hi|hello|hey)", p)
IsGreeting(p) == p \in { "hi", "hello", "hey" }

NamePrefix == "my name is "

\* Positions where r"my name is (\w+)" matches.
NameMatches(p) ==
    { i \in 1..Len(p) : MatchAt(p, i, NamePrefix) /\ IsWord(Char(p, i + Len(NamePrefix))) }

\* m = re.search(r"my name is (\w+)", p): [found |-> bool(m), group |-> m.group(1)]
NameSearch(p) ==
    IF NameMatches(p) = {} THEN [found |-> FALSE, group |-> ""]
    ELSE LET g == Leftmost(NameMatches(p)) + Len(NamePrefix)
         IN  [found |-> TRUE, group |-> SubSeq(p, g, RunEnd(p, g, "word"))]

\* Whether r"(?:in|at)\s+([a-zA-Z\s]+)" matches at position i. After the greedy
\* \s+ the group needs one more character: a letter right after the spaces, or,
\* by backtracking, the last of at least two spaces.
CityMatchAt(text, i) ==
    /\ MatchAt(text, i, "in") \/ MatchAt(text, i, "at")
    /\ i + 2 <= Len(text)
    /\ IsSpace(Char(text, i + 2))
    /\ LET k == RunEnd(text, i + 2, "space") + 1
       IN  \/ k <= Len(text) /\ IsAlpha(Char(text, k))
           \/ k - (i + 2) >= 2

\* match.group(1) of that match: a run of the character class [a-zA-Z\s].
CityGroup(text, i) ==
    LET k == RunEnd(text, i + 2, "space") + 1
    IN  IF k <= Len(text) /\ IsAlpha(Char(text, k))
        THEN SubSeq(text, k, RunEnd(text, k, "city"))
        ELSE Char(text, k - 1)

\* extract_city(text): [found |-> bool(match), city |-> match.group(1).strip()];
\* found = FALSE stands for the None it returns.
extract_city(text) ==
    LET hits == { i \in 1..Len(text) : CityMatchAt(text, i) }
    IN  IF hits = {} THEN [found |-> FALSE, city |-> ""]
        ELSE [found |-> TRUE, city |-> Strip(CityGroup(text, Leftmost(hits)))]

\* Length of the match of r"(vowels?|count|in|:)" at position i, 0 for none;
\* the alternatives are tried in the order written.
VowelTokenLen(p, i) ==
    IF MatchAt(p, i, "vowel")
    THEN (IF MatchAt(p, i + 5, "s") THEN 6 ELSE 5)
    ELSE IF MatchAt(p, i, "count") THEN 5
    ELSE IF MatchAt(p, i, "in") THEN 2
    ELSE IF MatchAt(p, i, ":") THEN 1
    ELSE 0

RECURSIVE SubVowelTokens(_, _)
SubVowelTokens(p, i) ==
    IF i > Len(p) THEN ""
    ELSE IF VowelTokenLen(p, i) > 0 THEN SubVowelTokens(p, i + VowelTokenLen(p, i))
    ELSE Char(p, i) \o SubVowelTokens(p, i + 1)

\* re.sub(r"(vowels?|count|in|:)", "", p).strip()
VowelWord(p) == Strip(SubVowelTokens(p, 1))

(***************************************************************************)
(* Python values that cross the tool boundary.  Every value carries its    *)
(* type t and its value v: an int, a float (<< m, d >> for m / 10^d with   *)
(* d >= 1 fraction digits, as repr() prints it), a str, a list, a dict     *)
(* (its items in insertion order), a bool, or None.                        *)
(***************************************************************************)

PyInt(n)      == [t |-> "int", v |-> n]
PyFloat(m, d) == [t |-> "float", v |-> << m, d >>]
PyStr(s)      == [t |-> "str", v |-> s]
PyList(xs)    == [t |-> "list", v |-> xs]
PyDict(items) == [t |-> "dict", v |-> items]
PyBool(b)     == [t |-> "bool", v |-> b]
PyNone        == [t |-> "None", v |-> << >>]

RECURSIVE NatToStr(_)
NatToStr(n) ==
    IF n < 10 THEN Digits[n + 1] ELSE NatToStr(n \div 10) \o Digits[(n % 10) + 1]

\* str(n) of an int.
IntToStr(n) == IF n < 0 THEN "-" \o NatToStr(-n) ELSE NatToStr(n)

RECURSIVE PadLeft(_, _)
PadLeft(s, width) == IF Len(s) >= width THEN s ELSE PadLeft("0" \o s, width)

\* repr(x) of a float m / 10^d.
FloatToStr(m, d) ==
    LET a == IF m < 0 THEN -m ELSE m
        unit == IF d = 0 THEN 1 ELSE IF d = 1 THEN 10 ELSE IF d = 2 THEN 100 ELSE 1000
    IN  (IF m < 0 THEN "-" ELSE "")
            \o NatToStr(a \div unit) \o "." \o PadLeft(NatToStr(a % unit), d)

RECURSIVE StrToNat(_, _)
StrToNat(s, acc) ==
    IF s = "" THEN acc
    ELSE StrToNat(From(s, 2), 10 * acc + (LetterIndex(Char(s, 1), Digits) - 1))

\* The float a decimal literal denotes: trailing fraction zeros carry no value.
RECURSIVE NormFloat(_, _)
NormFloat(m, d) ==
    IF d > 1 /\ m % 10 = 0 THEN NormFloat(m \div 10, d - 1) ELSE PyFloat(m, d)

(***************************************************************************)
(* json.dumps / json.loads, on the JSON of the tool contracts: objects,    *)
(* arrays, strings with the escapes \" \\ \/ \n \t \r, decimal numbers     *)
(* without exponent, true, false, null.                                    *)
(***************************************************************************)

Quote == "\""
Backslash == "\\"

EscapeChar(c) ==
    IF c = Quote THEN Backslash \o Quote
    ELSE IF c = Backslash THEN Backslash \o Backslash
    ELSE IF c = "\n" THEN Backslash \o "n"
    ELSE IF c = "\t" THEN Backslash \o "t"
    ELSE IF c = "\r" THEN Backslash \o "r"
    ELSE c

RECURSIVE EscapeFrom(_, _)
EscapeFrom(s, i) ==
    IF i > Len(s) THEN "" ELSE EscapeChar(Char(s, i)) \o EscapeFrom(s, i + 1)

JsonString(s) == Quote \o EscapeFrom(s, 1) \o Quote

RECURSIVE JsonDumps(_), DumpItems(_, _), DumpMembers(_, _)
\* json.dumps(x)
JsonDumps(x) ==
    CASE x.t = "int"   -> IntToStr(x.v)
      [] x.t = "float" -> FloatToStr(x.v[1], x.v[2])
      [] x.t = "str"   -> JsonString(x.v)
      [] x.t = "bool"  -> (IF x.v THEN "true" ELSE "false")
      [] x.t = "None"  -> "null"
      [] x.t = "list"  -> "[" \o DumpItems(x.v, 1) \o "]"
      [] x.t = "dict"  -> "{" \o DumpMembers(x.v, 1) \o "}"

DumpItems(xs, k) ==
    IF k > Len(xs) THEN ""
    ELSE JsonDumps(xs[k]) \o (IF k < Len(xs) THEN ", " ELSE "") \o DumpItems(xs, k + 1)

DumpMembers(items, k) ==
    IF k > Len(items) THEN ""
    ELSE JsonString(items[k][1]) \o ": " \o JsonDumps(items[k][2])
            \o (IF k < Len(items) THEN ", " ELSE "") \o DumpMembers(items, k + 1)

\* A parse step: ok = FALSE is the JSONDecodeError; next is the index after the value.
ParseFail == [ok |-> FALSE, v |-> PyNone, next |-> 0]
ParseOk(v, next) == [ok |-> TRUE, v |-> v, next |-> next]

SkipWs(s, i) == RunEnd(s, i, "space") + 1

\* The body of a string literal from index i (after the opening quote).
RECURSIVE ScanString(_, _, _)
ScanString(s, i, acc) ==
    LET e == RunEnd(s, i, "plain")
        chunk == acc \o SubSeq(s, i, e)
        Unescape(c) ==
            IF c = "n" THEN "\n" ELSE IF c = "t" THEN "\t" ELSE IF c = "r" THEN "\r" ELSE c
    IN  IF e + 1 > Len(s) THEN ParseFail
        ELSE IF Char(s, e + 1) = Quote THEN ParseOk(PyStr(chunk), e + 2)
        ELSE IF Char(s, e + 1) = Backslash
                /\ e + 2 <= Len(s)
                /\ Char(s, e + 2) \in {Quote, Backslash, "/", "n", "t", "r"}
             THEN ScanString(s, e + 3, chunk \o Unescape(Char(s, e + 2)))
        ELSE ParseFail

\* A number literal at index i: -? (0 | [1-9][0-9]*) (. [0-9]+)?
ParseNumber(s, i) ==
    LET neg == Char(s, i) = "-"
        a   == IF neg THEN i + 1 ELSE i
        ie  == IF MatchAt(s, a, "0") THEN a ELSE RunEnd(s, a, "digit")
        fe  == RunEnd(s, ie + 2, "digit")
        hasFrac == MatchAt(s, ie + 1, ".") /\ fe >= ie + 2
        whole == StrToNat(SubSeq(s, a, ie), 0)
        sign  == IF neg THEN -1 ELSE 1
    IN  IF ie < a THEN ParseFail
        ELSE IF hasFrac
             THEN ParseOk(NormFloat(sign * StrToNat(SubSeq(s, a, ie) \o SubSeq(s, ie + 2, fe), 0),
                                    fe - (ie + 1)), fe + 1)
        ELSE ParseOk(PyInt(sign * whole), ie + 1)

RECURSIVE ParseValue(_, _), ParseItems(_, _, _), ParseMembers(_, _, _)
ParseValue(s, i) ==
    LET c == Char(s, i)
    IN  IF i > Len(s) THEN ParseFail
        ELSE IF c = "{"
             THEN (IF MatchAt(s, SkipWs(s, i + 1), "}")
                   THEN ParseOk(PyDict(<<>>), SkipWs(s, i + 1) + 1)
                   ELSE ParseMembers(s, SkipWs(s, i + 1), <<>>))
        ELSE IF c = "["
             THEN (IF MatchAt(s, SkipWs(s, i + 1), "]")
                   THEN ParseOk(PyList(<<>>), SkipWs(s, i + 1) + 1)
                   ELSE ParseItems(s, SkipWs(s, i + 1), <<>>))
        ELSE IF c = Quote THEN ScanString(s, i + 1, "")
        ELSE IF c = "-" \/ IsDigit(c) THEN ParseNumber(s, i)
        ELSE IF MatchAt(s, i, "true") THEN ParseOk(PyBool(TRUE), i + 4)
        ELSE IF MatchAt(s, i, "false") THEN ParseOk(PyBool(FALSE), i + 5)
        ELSE IF MatchAt(s, i, "null") THEN ParseOk(PyNone, i + 4)
        ELSE ParseFail

\* The items of an array, from the first item at index i.
ParseItems(s, i, acc) ==
    LET item == ParseValue(s, i)
        j == SkipWs(s, item.next)
    IN  IF ~item.ok THEN ParseFail
        ELSE IF MatchAt(s, j, "]") THEN ParseOk(PyList(Append(acc, item.v)), j + 1)
        ELSE IF MatchAt(s, j, ",") THEN ParseItems(s, SkipWs(s, j + 1), Append(acc, item.v))
        ELSE ParseFail

\* dict(items): a repeated key keeps its first position and takes the last value.
PutItem(items, key, val) ==
    IF \E k \in DOMAIN items : items[k][1] = key
    THEN [k \in DOMAIN items |-> IF items[k][1] = key THEN <<key, val>> ELSE items[k]]
    ELSE Append(items, <<key, val>>)

\* The members of an object, from the first key at index i.
ParseMembers(s, i, acc) ==
    LET key == IF MatchAt(s, i, Quote) THEN ScanString(s, i + 1, "") ELSE ParseFail
        c   == SkipWs(s, key.next)
        val == IF key.ok /\ MatchAt(s, c, ":") THEN ParseValue(s, SkipWs(s, c + 1)) ELSE ParseFail
        j   == SkipWs(s, val.next)
    IN  IF ~val.ok THEN ParseFail
        ELSE IF MatchAt(s, j, "}")
             THEN ParseOk(PyDict(PutItem(acc, key.v.v, val.v)), j + 1)
        ELSE IF MatchAt(s, j, ",")
             THEN ParseMembers(s, SkipWs(s, j + 1), PutItem(acc, key.v.v, val.v))
        ELSE ParseFail

\* json.loads(text): [ok |-> FALSE] when it raises, else the value; text after
\* the value, other than whitespace, is an error.
JsonLoads(text) ==
    LET r == ParseValue(text, SkipWs(text, 1))
    IN  IF r.ok /\ SkipWs(text, r.next) > Len(text) THEN [ok |-> TRUE, v |-> r.v]
        ELSE [ok |-> FALSE, v |-> PyNone]

(***************************************************************************)
(* Python operations on values: truth, str(), repr(), subscripting, join   *)
(***************************************************************************)

\* bool(x)
Truthy(x) ==
    CASE x.t = "None"  -> FALSE
      [] x.t = "bool"  -> x.v
      [] x.t = "int"   -> x.v # 0
      [] x.t = "float" -> x.v[1] # 0
      [] x.t = "str"   -> x.v # ""
      [] x.t = "list"  -> x.v # <<>>
      [] x.t = "dict"  -> x.v # <<>>

RECURSIVE PyRepr(_), ReprItems(_, _), ReprMembers(_, _)
\* repr(x); a str is shown in single quotes (the texts here hold no quote or escape).
PyRepr(x) ==
    CASE x.t = "int"   -> IntToStr(x.v)
      [] x.t = "float" -> FloatToStr(x.v[1], x.v[2])
      [] x.t = "str"   -> "'" \o x.v \o "'"
      [] x.t = "bool"  -> (IF x.v THEN "True" ELSE "False")
      [] x.t = "None"  -> "None"
      [] x.t = "list"  -> "[" \o ReprItems(x.v, 1) \o "]"
      [] x.t = "dict"  -> "{" \o ReprMembers(x.v, 1) \o "}"

ReprItems(xs, k) ==
    IF k > Len(xs) THEN ""
    ELSE PyRepr(xs[k]) \o (IF k < Len(xs) THEN ", " ELSE "") \o ReprItems(xs, k + 1)

ReprMembers(items, k) ==
    IF k > Len(items) THEN ""
    ELSE "'" \o items[k][1] \o "': " \o PyRepr(items[k][2])
            \o (IF k < Len(items) THEN ", " ELSE "") \o ReprMembers(items, k + 1)

\* str(x), what an f-string field {x} prints.
Format(x) == IF x.t = "str" THEN x.v ELSE PyRepr(x)

\* The result of an expression that may raise: ok = FALSE carries the exception.
Value(v)   == [ok |-> TRUE, v |-> v, err |-> "none"]
Raises(e)  == [ok |-> FALSE, v |-> PyNone, err |-> e]

\* data[key] with a str key: a dict yields the value or KeyError, every other
\* type raises TypeError.
Subscript(data, key) ==
    IF data.t # "dict" THEN Raises("TypeError")
    ELSE IF \A k \in DOMAIN data.v : data.v[k][1] # key THEN Raises("KeyError")
    ELSE Value(data.v[CHOOSE k \in DOMAIN data.v : data.v[k][1] = key][2])

\* ', '.join(x): x iterates to strs (a list of str, the characters of a str,
\* the keys of a dict), anything else raises TypeError.
JoinComma(x) ==
    CASE x.t = "list" ->
            IF \A k \in DOMAIN x.v : x.v[k].t = "str"
            THEN Value(PyStr(Join([k \in DOMAIN x.v |-> x.v[k].v], ", ")))
            ELSE Raises("TypeError")
      [] x.t = "str"  -> Value(PyStr(Join([k \in 1..Len(x.v) |-> Char(x.v, k)], ", ")))
      [] x.t = "dict" -> Value(PyStr(Join([k \in DOMAIN x.v |-> x.v[k][1]], ", ")))
      [] OTHER -> Raises("TypeError")

(***************************************************************************)
(* The tool provider (src/server.py) and the reply envelope                *)
(***************************************************************************)

\* A content fragment of a CallToolResult: text content, or content without
\* a text attribute (an image).
TextContent(text) == [type |-> "text", text |-> text]

\* A CallToolResult with the given content fragments.
CallToolResult(content) == [content |-> content]

\* The provider's reply for a returned model: its JSON text, as one fragment.
StructuredReply(record) == CallToolResult(<< TextContent(JsonDumps(record)) >>)

\* get_weather(input): the unresolved city yields the zero values.
get_weather(city, resolved, sample) ==
    PyDict(<< << "city", PyStr(city) >>,
              << "temperature_c", IF resolved THEN sample[1] ELSE PyFloat(0, 1) >>,
              << "wind_speed", IF resolved THEN sample[2] ELSE PyFloat(0, 1) >> >>)

RECURSIVE VowelsFrom(_, _)
VowelsFrom(text, i) ==
    IF i > Len(text) THEN <<>>
    ELSE (IF Char(text, i) \in {"a", "e", "i", "o", "u"}
          THEN << PyStr(Char(text, i)) >> ELSE <<>>) \o VowelsFrom(text, i + 1)

\* count_vowels(input)
count_vowels(text) ==
    LET vowels == VowelsFrom(Lower(text), 1)
    IN  PyDict(<< << "vowel_count", PyInt(Len(vowels)) >>,
                  << "vowels", PyList(vowels) >> >>)

\* system_diagnostics(input): one sample of the host; the detail is not read.
system_diagnostics(detail) ==
    PyDict(<< << "hostname", PyStr("devbox") >>,
              << "ip_address", PyStr("127.0.1.1") >>,
              << "os", PyStr("Linux") >>,
              << "os_version", PyStr("#1 SMP") >>,
              << "architecture", PyStr("x86_64") >>,
              << "cpu_physical_cores", PyInt(4) >>,
              << "cpu_logical_cores", PyInt(8) >>,
              << "cpu_usage_percent", PyFloat(125, 1) >>,
              << "cpu_frequency_mhz", PyFloat(0, 1) >>,
              << "memory_total_gb", PyFloat(1562, 2) >>,
              << "memory_used_gb", PyFloat(41, 1) >>,
              << "memory_free_gb", PyFloat(1152, 2) >>,
              << "memory_usage_percent", PyFloat(263, 1) >>,
              << "disk_total_gb", PyFloat(4560, 1) >>,
              << "disk_used_gb", PyFloat(12025, 2) >>,
              << "disk_free_gb", PyFloat(33575, 2) >>,
              << "disk_usage_percent", PyFloat(264, 1) >>,
              << "system_uptime_hours", PyFloat(7225, 2) >>,
              << "running_in_vm", PyBool(FALSE) >> >>)

\* input.<field> of the tool that serves a request.
Argument(req, field) == Subscript(req.arguments, field).v.v

\* The records the capability named by a request can return for it.
ToolResults(req) ==
    CASE req.tool = "get_weather" ->
            \* what the weather service reported, as (temperature, windspeed)
            { get_weather(Argument(req, "city"), TRUE, w) :
                w \in { << PyFloat(314, 1), PyFloat(50, 1) >>,
                        << PyFloat(-35, 1), PyFloat(1225, 2) >> } }
                \cup { get_weather(Argument(req, "city"), FALSE, << >>) }
      [] req.tool = "count_vowels" -> { count_vowels(Argument(req, "text")) }
      [] req.tool = "system_diagnostics" -> { system_diagnostics(Argument(req, "detail")) }

\* Replies that carry no structured record: the text of a failed tool, an
\* empty content list, content without text, and JSON that is not an object.
ErrorReply   == CallToolResult(<< TextContent("Error executing tool: request failed") >>)
EmptyReply   == CallToolResult(<< >>)

\* Every reply envelope the provider can answer a request with.
ProviderReplies(req) ==
    { StructuredReply(r) : r \in ToolResults(req) }
        \cup { ErrorReply, EmptyReply,
               CallToolResult(<< [type |-> "image", text |-> ""] >>),
               CallToolResult(<< TextContent("null") >>) }

(***************************************************************************)
(* The result decoder (parse_tool_result) and the renderings               *)
(***************************************************************************)

\* parse_tool_result(result): None for an empty content list, else the parsed
\* JSON value of the joined, stripped text, or that text when parsing raises.
parse_tool_result(result) ==
    IF result.content = << >> THEN PyNone
    ELSE LET texts == SelectSeq(result.content, LAMBDA c : c.type = "text")
             text  == Strip(Join([k \in DOMAIN texts |-> texts[k].text], "\n"))
         IN  IF JsonLoads(text).ok THEN JsonLoads(text).v ELSE PyStr(text)

\* The outcome of producing one clause's response: the appended text, or the
\* exception raised instead.
Rendered(text) == [ok |-> TRUE, text |-> text, err |-> "none"]
Raised(e)      == [ok |-> FALSE, text |-> "", err |-> e]

\* The first exception among the subscripts, in evaluation order.
FirstError(vals) == vals[CHOOSE k \in DOMAIN vals :
                            ~vals[k].ok /\ \A j \in 1..(k - 1) : vals[j].ok].err

AllOk(vals) == \A k \in DOMAIN vals : vals[k].ok

\* The response texts, in ASCII: the pictographs of the source strings are
\* left out, its bullet is written "-", its degree sign is dropped and its
\* typographic apostrophe is written "'".
GreetingReply == "Hi there! How can I help you?"
CityHelp      == "Please specify a city (e.g., weather in guntur)."
WordHelp      == "Please give a word (e.g., vowels in terralogic)."
FallbackReply == "Sorry, I don't have access to that information with my current tools."

NameSetReply(name)   == "Nice to meet you, " \o name \o "!"
NameQueryReply(name) == "Your name is " \o name \o "."

\* The weather response (agent.py 108-115): a dict is shown field by field,
\* anything else as text.
RenderWeather(city, data) ==
    IF data.t = "dict"
    THEN LET f == << Subscript(data, "temperature_c"), Subscript(data, "wind_speed") >>
         IN  IF AllOk(f)
             THEN Rendered("Weather in " \o Title(city) \o ":\n"
                           \o "- Temperature: " \o Format(f[1].v) \o " C\n"
                           \o "- Wind Speed: " \o Format(f[2].v) \o " km/h")
             ELSE Raised(FirstError(f))
    ELSE Rendered("Weather info: " \o Format(data))

\* The vowel response (agent.py 131-134): data is subscripted whatever it is.
RenderVowels(word, data) ==
    LET count   == Subscript(data, "vowel_count")
        vowels  == Subscript(data, "vowels")
        letters == IF vowels.ok THEN JoinComma(vowels.v) ELSE vowels
        f == << count, vowels, letters >>
    IN  IF AllOk(f)
        THEN Rendered("Vowels in '" \o word \o "': " \o Format(count.v) \o "\n"
                      \o "- Letters: " \o letters.v.v)
        ELSE Raised(FirstError(f))

\* A choice of section that looks for "disk" before "cpu".
SystemSectionDiskFirst(p) ==
    IF Contains(p, "disk") THEN "disk"
    ELSE IF Contains(p, "cpu") THEN "cpu"
    ELSE IF Contains(p, "memory") \/ Contains(p, "ram") THEN "memory"
    ELSE "system"

\* The section of the system response, chosen from the clause (agent.py 145-173).
SystemSection(p) ==
    IF Contains(p, "cpu") THEN "cpu"
    ELSE IF Contains(p, "memory") \/ Contains(p, "ram") THEN "memory"
    ELSE IF Contains(p, "disk") THEN "disk"
    ELSE "system"

\* The fields a section reads, in the order the f-string reads them.
SectionKeys(section) ==
    CASE section = "cpu" -> << "cpu_usage_percent", "cpu_physical_cores", "cpu_logical_cores" >>
      [] section = "memory" -> << "memory_total_gb", "memory_used_gb", "memory_free_gb",
                                  "memory_usage_percent" >>
      [] section = "disk" -> << "disk_total_gb", "disk_used_gb", "disk_free_gb" >>
      [] section = "system" -> << "os", "os_version", "architecture", "system_uptime_hours" >>

SectionBody(section, v) ==
    CASE section = "cpu" ->
            "- Usage: " \o v[1] \o "%\n- Physical cores: " \o v[2]
                \o "\n- Logical cores: " \o v[3]
      [] section = "memory" ->
            "- Total: " \o v[1] \o " GB\n- Used: " \o v[2] \o " GB\n- Free: " \o v[3]
                \o " GB\n- Usage: " \o v[4] \o "%"
      [] section = "disk" ->
            "- Total: " \o v[1] \o " GB\n- Used: " \o v[2] \o " GB\n- Free: " \o v[3] \o " GB"
      [] section = "system" ->
            "- OS: " \o v[1] \o " " \o v[2] \o "\n- Architecture: " \o v[3]
                \o "\n- Uptime: " \o v[4] \o " hours"

\* The system response (agent.py 145-178): data is subscripted whatever it is.
RenderSystem(p, data) ==
    LET keys == SectionKeys(SystemSection(p))
        f == [k \in DOMAIN keys |-> Subscript(data, keys[k])]
        title == CASE SystemSection(p) = "cpu" -> "CPU Info:"
                   [] SystemSection(p) = "memory" -> "Memory Info:"
                   [] SystemSection(p) = "disk" -> "Disk Info:"
                   [] SystemSection(p) = "system" -> "System Info:"
    IN  IF AllOk(f)
        THEN Rendered(title \o "\n"
                      \o SectionBody(SystemSection(p), [k \in DOMAIN f |-> Format(f[k].v)]))
        ELSE Raised(FirstError(f))

(***************************************************************************)
(* The inputs                                                              *)
(***************************************************************************)

\* The number of utterances one session reads before it is told to exit.
MaxTurns == 2

\* Clauses a user types: every way through the clause loop is among them.
Clauses ==
    { "hello", "Hey", "hi there",
      "my name is asha", "My Name Is bob", "what is my name",
      "is my name in the weather",
      "weather in Hydrabad", "weather", "wind in 5", "temperature at new york",
      "what is the weather in paris",
      "vowels in likhita", "vowels", "vowels in india", "count vowels in: Asha",
      "cpu usage", "how much ram", "disk space", "system info",
      "tell me a joke", "exit" }

TwoClauses(c1, c2) == c1 \o ", " \o c2

\* The lines input() can return: one clause, two clauses, and lines that
\* are neither.
Utterances ==
    Clauses \cup { TwoClauses(c1, c2) : c1, c2 \in Clauses }
        \cup { "", "   ", ",", " , ,", "EXIT", " Exit ", "hello,,hi",
               "  hello , cpu usage,vowels in likhita ", "hello, what's my cpu usage",
               "weather at  7", "I am Asha", "iam asha",
               "disk and CPU usage" }

(***************************************************************************)
(* The state of the agent process (main of src/agent.py), of the channel   *)
(* to the provider, and the record of the current turn                     *)
(***************************************************************************)

VARIABLES
    session,     \* the ClientSession: "closed", "open", "ready" (initialized), "released"
    pc,          \* where main is: "start", "handshake", "input", "clause",
                 \*   "weather_call", "vowel_call", "system_call", "closing", "done"
    error,       \* the exception that ended the loop, "none" when there is none
    user_name,   \* the global user_name: None or a str
    user_input,  \* the stripped line of the current turn
    parts,       \* the clauses of the current turn
    idx,           \* index in parts of the clause the for loop is at
    responses,   \* the responses list of the current turn
    requests,    \* requests written to the provider and not yet served
    replies,     \* reply envelopes written by the provider and not yet read
    printed,     \* the reply printed after "Agent: " since the last line was read, if any
    turn,        \* utterances read so far, "exit" not counted
    trace,       \* per clause of the turn that was entered: the clause, the name
                 \*   stored when it was entered, the branch that handled it
    sent,        \* the tool requests of the current turn, in the order sent
    oracle,      \* "any", or the one kind of reply the provider gives this session
    script,      \* lines still to be fed to input(), when the session is scripted
    saved,       \* the turn records of a scripted run, kept for comparison
    plan,        \* the scripted comparison: its clauses, start name and phase
    envelope,    \* the CallToolResult handed to parse_tool_result, when the
                 \*   decoder is run on its own
    decoded      \* what parse_tool_result returned for it, unbound before

agentVars   == << session, pc, error, user_name, user_input, parts, idx, responses, printed, turn >>
channelVars == << requests, replies >>
turnVars    == << trace, sent >>
scriptVars  == << oracle, script, saved, plan, envelope, decoded >>
vars == << agentVars, channelVars, turnVars, scriptVars >>

AwaitPcs == { "weather_call", "vowel_call", "system_call" }

NotPrinted == [done |-> FALSE, text |-> ""]

\* A local variable that has not been assigned.
Unbound == [t |-> "unbound", v |-> << >>]

NoResult == [responses |-> << >>, sent |-> << >>, name |-> "None", error |-> "none"]

\* The state a fresh process is in, with the given stored name.
Fresh(name) ==
    /\ session = "closed"
    /\ pc = "start"
    /\ error = "none"
    /\ user_name = name
    /\ user_input = ""
    /\ parts = << >>
    /\ idx = 1
    /\ responses = << >>
    /\ requests = << >>
    /\ replies = << >>
    /\ printed = NotPrinted
    /\ turn = 0
    /\ trace = << >>
    /\ sent = << >>

Init ==
    /\ Fresh(PyNone)
    /\ oracle = "any"
    /\ script = << >>
    /\ saved = << >>
    /\ plan = [on |-> FALSE, c1 |-> "", c2 |-> "", start |-> PyNone,
               phase |-> "", joined |-> NoResult]
    /\ envelope = EmptyReply
    /\ decoded = Unbound

(***************************************************************************)
(* Session setup and teardown (agent.py 64-66 and the exits of the scopes) *)
(***************************************************************************)

\* Scopes that are entered and go to the loop without the handshake.
OpenNoHandshake ==
    /\ pc = "start"
    /\ session' = "open"
    /\ pc' = "input"
    /\ UNCHANGED << error, user_name, user_input, parts, idx, responses, printed, turn >>
    /\ UNCHANGED << channelVars, turnVars, scriptVars >>

\* async with stdio_client(...) / ClientSession(...): the scopes are entered.
Open ==
    /\ pc = "start"
    /\ session' = "open"
    /\ pc' = "handshake"
    /\ UNCHANGED << error, user_name, user_input, parts, idx, responses, printed, turn >>
    /\ UNCHANGED << channelVars, turnVars, scriptVars >>

\* await session.initialize()
Initialize ==
    /\ pc = "handshake"
    /\ session' = "ready"
    /\ pc' = "input"
    /\ UNCHANGED << error, user_name, user_input, parts, idx, responses, printed, turn >>
    /\ UNCHANGED << channelVars, turnVars, scriptVars >>

\* A process that ends without leaving the scopes.
ReleaseSkipped ==
    /\ pc = "closing"
    /\ pc' = "done"
    /\ UNCHANGED << session, error, user_name, user_input, parts, idx, responses, printed, turn >>
    /\ UNCHANGED << channelVars, turnVars, scriptVars >>

\* Leaving the async with scopes, after break or while an exception propagates.
Release ==
    /\ pc = "closing"
    /\ session' = "released"
    /\ pc' = "done"
    /\ UNCHANGED << error, user_name, user_input, parts, idx, responses, printed, turn >>
    /\ UNCHANGED << channelVars, turnVars, scriptVars >>

(***************************************************************************)
(* Reading and segmenting an utterance (agent.py 69-74)                    *)
(***************************************************************************)

\* A segmentation that keeps the first clause of the line only.
SegmentFirst(text) ==
    LET pieces == SplitComma(text)
        kept == SelectSeq([k \in DOMAIN pieces |-> Strip(pieces[k])], LAMBDA part : part # "")
    IN  IF kept = << >> THEN << >> ELSE << Head(kept) >>

\* [p.strip() for p in user_input.split(",") if p.strip()]
Segment(text) ==
    LET pieces == SplitComma(text)
    IN  SelectSeq([k \in DOMAIN pieces |-> Strip(pieces[k])], LAMBDA part : part # "")

\* What main computes from a line is computed once per line of the inputs:
\* user_input = input("User: ").strip(), whether user_input.lower() == "exit",
\* and parts.
StrippedOf == [line \in Utterances |-> Strip(line)]
IsExitOf   == [line \in Utterances |-> Lower(StrippedOf[line]) = "exit"]
PartsOf    == [line \in Utterances |-> Segment(StrippedOf[line])]

\* input() returns line: the loop breaks on exit, else a new turn begins.
ReadLine(line) ==
    /\ pc = "input"
    /\ user_input' = StrippedOf[line]
    /\ IF IsExitOf[line]
       THEN /\ pc' = "closing"
            /\ printed' = NotPrinted
            /\ UNCHANGED << parts, idx, responses, turn, trace, sent >>
       ELSE /\ pc' = "clause"
            /\ parts' = PartsOf[line]
            /\ idx' = 1
            /\ responses' = << >>
            /\ printed' = NotPrinted
            /\ turn' = turn + 1
            /\ trace' = << >>
            /\ sent' = << >>
    /\ UNCHANGED << session, error, user_name, channelVars >>

ReadInput ==
    /\ ~plan.on
    /\ pc = "input"
    /\ \E line \in Utterances :
          /\ turn < MaxTurns \/ IsExitOf[line]
          /\ ReadLine(line)
    /\ UNCHANGED scriptVars

(***************************************************************************)
(* The clause loop (agent.py 76-184)                                       *)
(***************************************************************************)

\* The branch of the loop body that handles the lower-cased clause p when
\* name is stored: the first whose condition holds, in the order of the code.
Branch(p, name) ==
    IF IsGreeting(p) THEN "greeting"
    ELSE IF NameSearch(p).found THEN "setname"
    ELSE IF Truthy(name) /\ Contains(p, "my name") THEN "queryname"
    ELSE IF ContainsAny(p, {"weather", "climate", "temperature", "wind"}) THEN "weather"
    ELSE IF Contains(p, "vowel") THEN "vowel"
    ELSE IF ContainsAny(p, {"cpu", "memory", "ram", "disk", "system", "os"}) THEN "system"
    ELSE "fallback"

\* A tool request: call_tool(tool, arguments={"input": arguments}).
Request(tool, arguments) == [tool |-> tool, arguments |-> arguments]

WeatherRequest(city) == Request("get_weather", PyDict(<< << "city", PyStr(city) >> >>))
VowelRequest(word)   == Request("count_vowels", PyDict(<< << "text", PyStr(word) >> >>))
SystemRequest(p)     == Request("system_diagnostics", PyDict(<< << "detail", PyStr(p) >> >>))

\* What the loop body computes from a clause is computed once per clause of
\* the inputs and looked up afterwards.
ClauseTexts == UNION { Range(PartsOf[line]) : line \in Utterances }

\* p = part.lower()
LowerOf == [c \in ClauseTexts |-> Lower(c)]

\* m = re.search(r"my name is (\w+)", p)
NameOf == [c \in ClauseTexts |-> NameSearch(LowerOf[c])]

\* city = extract_city(p)
CityOf == [c \in ClauseTexts |-> extract_city(LowerOf[c])]

\* word = re.sub(r"(vowels?|count|in|:)", "", p).strip()
WordOf == [c \in ClauseTexts |-> VowelWord(LowerOf[c])]

\* The names a session starts with, and those it can come to store.
StartNames == { PyNone, PyStr("Asha") }

StoredNames ==
    StartNames \cup
        { PyStr(Capitalize(NameOf[c].group)) : c \in { d \in ClauseTexts : NameOf[d].found } }

BranchOf == [c \in ClauseTexts |-> [name \in StoredNames |-> Branch(LowerOf[c], name)]]

\* for part in parts: p = part.lower()
Part == parts[idx]
P == LowerOf[Part]
City == CityOf[Part].city
Word == WordOf[Part]

\* The loop body is entered for the current clause and takes the given branch.
Enters(branch) ==
    /\ pc = "clause"
    /\ idx <= Len(parts)
    /\ BranchOf[Part][user_name] = branch
    /\ trace' = Append(trace, [clause |-> Part, name |-> user_name, branch |-> branch])

\* A loop body that puts the response at the front of the list.
RespondFirst(text) ==
    /\ responses' = << text >> \o responses
    /\ idx' = idx + 1
    /\ pc' = "clause"

\* responses.append(text); continue
Respond(text) ==
    /\ responses' = Append(responses, text)
    /\ idx' = idx + 1
    /\ pc' = "clause"

\* A call that is not awaited: the request is written and the loop goes on.
CallToolNoAwait(request, site) ==
    /\ requests' = Append(requests, request)
    /\ sent' = Append(sent, request)
    /\ pc' = "clause"
    /\ idx' = idx + 1
    /\ UNCHANGED << responses, replies >>

\* await session.call_tool(...): the request is written and main is suspended
\* at the call site until the reply is read.
CallTool(request, site) ==
    /\ requests' = Append(requests, request)
    /\ sent' = Append(sent, request)
    /\ pc' = site
    /\ UNCHANGED << responses, idx, replies >>

Greeting ==
    /\ Enters("greeting")
    /\ Respond(GreetingReply)
    /\ UNCHANGED << session, error, user_name, user_input, parts, printed, turn >>
    /\ UNCHANGED << channelVars, sent, scriptVars >>

SetName ==
    /\ Enters("setname")
    /\ user_name' = PyStr(Capitalize(NameOf[Part].group))
    /\ Respond(NameSetReply(Capitalize(NameOf[Part].group)))
    /\ UNCHANGED << session, error, user_input, parts, printed, turn >>
    /\ UNCHANGED << channelVars, sent, scriptVars >>

\* A name query that forgets the name once it has answered.
QueryNameForgets ==
    /\ Enters("queryname")
    /\ Respond(NameQueryReply(user_name.v))
    /\ user_name' = PyNone
    /\ UNCHANGED << session, error, user_input, parts, printed, turn >>
    /\ UNCHANGED << channelVars, sent, scriptVars >>

QueryName ==
    /\ Enters("queryname")
    /\ Respond(NameQueryReply(user_name.v))
    /\ UNCHANGED << session, error, user_name, user_input, parts, printed, turn >>
    /\ UNCHANGED << channelVars, sent, scriptVars >>

\* A weather branch without the `if not city` check.
WeatherNoCheck ==
    /\ Enters("weather")
    /\ CallTool(WeatherRequest(City), "weather_call")
    /\ UNCHANGED << session, error, user_name, user_input, parts, printed, turn, scriptVars >>

\* `if not city` holds for the None of no match and for "".
Weather ==
    /\ Enters("weather")
    /\ IF City = ""
       THEN Respond(CityHelp) /\ UNCHANGED << channelVars, sent >>
       ELSE CallTool(WeatherRequest(City), "weather_call")
    /\ UNCHANGED << session, error, user_name, user_input, parts, printed, turn, scriptVars >>

Vowels ==
    /\ Enters("vowel")
    /\ IF Word = ""
       THEN Respond(WordHelp) /\ UNCHANGED << channelVars, sent >>
       ELSE CallTool(VowelRequest(Word), "vowel_call")
    /\ UNCHANGED << session, error, user_name, user_input, parts, printed, turn, scriptVars >>

System ==
    /\ Enters("system")
    /\ CallTool(SystemRequest(P), "system_call")
    /\ UNCHANGED << session, error, user_name, user_input, parts, printed, turn, scriptVars >>

Fallback ==
    /\ Enters("fallback")
    /\ Respond(FallbackReply)
    /\ UNCHANGED << session, error, user_name, user_input, parts, printed, turn >>
    /\ UNCHANGED << channelVars, sent, scriptVars >>

\* print("Agent:", "\n\n".join(responses)), after the last clause.
PrintReply ==
    /\ pc = "clause"
    /\ idx > Len(parts)
    /\ printed' = [done |-> TRUE, text |-> Join(responses, "\n\n")]
    /\ pc' = "input"
    /\ UNCHANGED << session, error, user_name, user_input, parts, idx, responses, turn >>
    /\ UNCHANGED << channelVars, turnVars, scriptVars >>

(***************************************************************************)
(* The provider's answers and the continuation of the suspended call       *)
(***************************************************************************)

\* The requests the clauses of the inputs can lead to.
ToolRequests ==
    { WeatherRequest(CityOf[c].city) : c \in ClauseTexts }
        \cup { VowelRequest(WordOf[c]) : c \in ClauseTexts }
        \cup { SystemRequest(LowerOf[c]) : c \in ClauseTexts }

\* The replies to each request, and what parse_tool_result makes of each
\* reply, computed once.
RepliesTo == [req \in ToolRequests |-> ProviderReplies(req)]

Decoded == [reply \in UNION { RepliesTo[req] : req \in ToolRequests } |->
                parse_tool_result(reply)]

\* A provider that answers identical requests identically gives one kind of reply.
OracleKinds == { "record", "error", "empty" }

OracleReplies ==
    [req \in ToolRequests |-> [kind \in OracleKinds |->
        CASE kind = "record" -> StructuredReply(CHOOSE r \in ToolResults(req) : TRUE)
          [] kind = "error"  -> ErrorReply
          [] kind = "empty"  -> EmptyReply]]

\* A provider that takes the oldest request and never answers it.
ServeDrops ==
    /\ session = "ready"
    /\ requests # << >>
    /\ requests' = Tail(requests)
    /\ UNCHANGED << replies, agentVars, turnVars, scriptVars >>

\* The provider serves the oldest request.
Serve ==
    /\ session = "ready"
    /\ requests # << >>
    /\ \E reply \in (IF oracle = "any" THEN RepliesTo[Head(requests)]
                                        ELSE { OracleReplies[Head(requests)][oracle] }) :
          /\ requests' = Tail(requests)
          /\ replies' = Append(replies, reply)
    /\ UNCHANGED << agentVars, turnVars, scriptVars >>

\* The statement after the call: the response is appended, or the exception
\* raised while building it leaves the loop.
Finish(out) ==
    IF out.ok
    THEN Respond(out.text) /\ UNCHANGED error
    ELSE error' = out.err /\ pc' = "closing" /\ UNCHANGED << responses, idx >>

\* call_tool returns at a call site.
Returns(site) ==
    /\ pc = site
    /\ replies # << >>
    /\ replies' = Tail(replies)
    /\ UNCHANGED << session, user_name, user_input, parts, printed, turn >>
    /\ UNCHANGED << requests, turnVars, scriptVars >>

\* data = parse_tool_result(result)
Data == Decoded[Head(replies)]

WeatherReply ==
    /\ Returns("weather_call")
    /\ Finish(RenderWeather(City, Data))

VowelsReply ==
    /\ Returns("vowel_call")
    /\ Finish(RenderVowels(Word, Data))

\* The outcome of the system branch for each clause and each reply to its
\* request, computed once: RenderSystem(p, parse_tool_result(result)).
SystemOutcomeOf ==
    [c \in ClauseTexts |->
        [reply \in RepliesTo[SystemRequest(LowerOf[c])] |-> RenderSystem(LowerOf[c], Decoded[reply])]]

SystemReply ==
    /\ Returns("system_call")
    /\ Finish(SystemOutcomeOf[Part][Head(replies)])

\* A channel failure that is swallowed: the loop goes on to the next clause.
ChannelFailSkipped ==
    /\ pc \in AwaitPcs
    /\ ~plan.on
    /\ error' = "ChannelError"
    /\ pc' = "clause"
    /\ idx' = idx + 1
    /\ UNCHANGED << session, user_name, user_input, parts, responses, printed, turn >>
    /\ UNCHANGED << channelVars, turnVars, scriptVars >>

\* The channel breaks while a call is awaited: call_tool raises.
ChannelFail ==
    /\ pc \in AwaitPcs
    /\ ~plan.on
    /\ error' = "ChannelError"
    /\ pc' = "closing"
    /\ UNCHANGED << session, user_name, user_input, parts, idx, responses, printed, turn >>
    /\ UNCHANGED << channelVars, turnVars, scriptVars >>

Next ==
    \/ Open
    \/ Initialize
    \/ ReadInput
    \/ Greeting
    \/ SetName
    \/ QueryName
    \/ Weather
    \/ Vowels
    \/ System
    \/ Fallback
    \/ PrintReply
    \/ Serve
    \/ WeatherReply
    \/ VowelsReply
    \/ SystemReply
    \/ ChannelFail
    \/ Release

Spec == Init /\ [][Next]_vars

(***************************************************************************)
(* The session with a provider that answers.  Every request is answered    *)
(* with the structured record of its tool and the channel does not fail.   *)
(* main runs whenever it can (the event loop resumes a coroutine that is   *)
(* ready) and the provider answers a request that is waiting; nothing      *)
(* makes the user type a line.                                             *)
(***************************************************************************)

InitLive ==
    /\ Fresh(PyNone)
    /\ oracle = "record"
    /\ script = << >>
    /\ saved = << >>
    /\ plan = [on |-> FALSE, c1 |-> "", c2 |-> "", start |-> PyNone,
               phase |-> "", joined |-> NoResult]
    /\ envelope = EmptyReply
    /\ decoded = Unbound

\* The steps of main between two reads of input().
Resolve ==
    \/ Greeting
    \/ SetName
    \/ QueryName
    \/ Weather
    \/ Vowels
    \/ System
    \/ Fallback
    \/ PrintReply
    \/ WeatherReply
    \/ VowelsReply
    \/ SystemReply

NextLive ==
    \/ Open
    \/ Initialize
    \/ ReadInput
    \/ Resolve
    \/ Serve
    \/ Release

SpecLive == InitLive /\ [][NextLive]_vars /\ WF_vars(Resolve) /\ WF_vars(Serve)

(***************************************************************************)
(* Two clauses on one line against the same two clauses on two lines.      *)
(* A scripted session reads "c1, c2" as one utterance; a second process    *)
(* with the same stored name and the same provider then reads c1 and c2 as *)
(* two utterances.  What each run produced is kept for comparison.         *)
(***************************************************************************)

RECURSIVE AllOf(_, _)
\* The concatenation of one field over the kept turn records.
AllOf(records, field) ==
    IF records = << >> THEN << >>
    ELSE Head(records)[field] \o AllOf(Tail(records), field)

\* What the run produced so far: the responses appended and the requests sent,
\* over all its turns, the stored name (as repr shows it) and the exception
\* that ended it.
RunResult ==
    [ responses |-> AllOf(saved, "responses") \o responses,
      sent      |-> AllOf(saved, "sent") \o sent,
      name      |-> PyRepr(user_name),
      error     |-> error ]

\* The run has read its whole script, or its loop has ended.
RunFinished == pc = "done" \/ (pc = "input" /\ script = << >>)

InitPair ==
    \E c1 \in Clauses, c2 \in Clauses, name \in StartNames, kind \in OracleKinds :
        /\ Fresh(name)
        /\ oracle = kind
        /\ script = << TwoClauses(c1, c2) >>
        /\ saved = << >>
        /\ plan = [on |-> TRUE, c1 |-> c1, c2 |-> c2, start |-> name,
                   phase |-> "joined", joined |-> NoResult]
        /\ envelope = EmptyReply
        /\ decoded = Unbound

\* input() returns the next line of the script.
ReadScripted ==
    /\ plan.on
    /\ pc = "input"
    /\ script # << >>
    /\ ReadLine(Head(script))
    /\ script' = Tail(script)
    /\ saved' = IF IsExitOf[Head(script)] THEN saved ELSE Append(saved, [responses |-> responses, sent |-> sent])
    /\ UNCHANGED << oracle, plan, envelope, decoded >>

\* The one-line run is over: its result is kept and a fresh process starts
\* on the two-line script, from the same stored name.
Restart ==
    /\ plan.on
    /\ plan.phase = "joined"
    /\ RunFinished
    /\ plan' = [plan EXCEPT !.phase = "split", !.joined = RunResult]
    /\ script' = << plan.c1, plan.c2 >>
    /\ saved' = << >>
    /\ session' = "closed"
    /\ pc' = "start"
    /\ error' = "none"
    /\ user_name' = plan.start
    /\ user_input' = ""
    /\ parts' = << >>
    /\ idx' = 1
    /\ responses' = << >>
    /\ requests' = << >>
    /\ replies' = << >>
    /\ printed' = NotPrinted
    /\ turn' = 0
    /\ trace' = << >>
    /\ sent' = << >>
    /\ UNCHANGED << oracle, envelope, decoded >>

PairNext ==
    \/ Open
    \/ Initialize
    \/ ReadScripted
    \/ Greeting
    \/ SetName
    \/ QueryName
    \/ Weather
    \/ Vowels
    \/ System
    \/ Fallback
    \/ PrintReply
    \/ Serve
    \/ WeatherReply
    \/ VowelsReply
    \/ SystemReply
    \/ Release
    \/ Restart

SpecPair == InitPair /\ [][PairNext]_vars

(***************************************************************************)
(* The result decoder on its own: parse_tool_result applied to an envelope *)
(***************************************************************************)

\* Records a tool returns, as the provider encodes them.
Records ==
    { get_weather("paris", TRUE, << PyFloat(-35, 1), PyFloat(1225, 2) >>),
      get_weather("x", FALSE, << >>),
      count_vowels("india"),
      PyDict(<< >>) }

\* The envelopes the decoder is given: no, one or two content fragments, each
\* a text or a fragment without text.  The texts are encodings of records,
\* pieces that only parse when joined, text that is not JSON, JSON values
\* that are not records, and text with white space around it.
Envelopes ==
    LET texts == { JsonDumps(r) : r \in Records }
                    \cup { "{\"a\":", "1}", "Error executing tool: request failed",
                           "", "null", "42", "[1, 2]", "\"abc\"", " not json\n" }
        fragments == { TextContent(t) : t \in texts } \cup { [type |-> "image", text |-> ""] }
    IN  { CallToolResult(<< >>) }
            \cup { CallToolResult(<< f >>) : f \in fragments }
            \cup { CallToolResult(<< f, g >>) : f \in fragments, g \in fragments }

InitDecode ==
    /\ Fresh(PyNone)
    /\ oracle = "any"
    /\ script = << >>
    /\ saved = << >>
    /\ plan = [on |-> FALSE, c1 |-> "", c2 |-> "", start |-> PyNone,
               phase |-> "", joined |-> NoResult]
    /\ envelope \in Envelopes
    /\ decoded = Unbound

\* data = parse_tool_result(result)
Decode ==
    /\ decoded.t = "unbound"
    /\ decoded' = parse_tool_result(envelope)
    /\ UNCHANGED << agentVars, channelVars, turnVars, oracle, script, saved, plan, envelope >>

SpecDecode == InitDecode /\ [][Decode]_vars

\* The texts of the fragments of the envelope, joined by newlines.
JoinedText ==
    LET texts == SelectSeq(envelope.content, LAMBDA c : c.type = "text")
    IN  Join([k \in DOMAIN texts |-> texts[k].text], "\n")

(***************************************************************************)
(* What the clauses of a turn can render, and the request of the call      *)
(* that is awaited                                                         *)
(***************************************************************************)

\* "my name" in p, for a clause the name pattern does not match (agent.py 85, 91).
NameQueryOf == [c \in ClauseTexts |-> Contains(LowerOf[c], "my name") /\ ~NameOf[c].found]

\* The strings the loop body can append for clause c when name is stored:
\* one per reply the provider can give, where a call is made.
RenderingsOf ==
    [c \in ClauseTexts |-> [name \in StoredNames |->
        LET branch == BranchOf[c][name]
            city   == CityOf[c].city
            word   == WordOf[c]
            lower  == LowerOf[c]
        IN  CASE branch = "greeting"  -> { GreetingReply }
              [] branch = "setname"   -> { NameSetReply(Capitalize(NameOf[c].group)) }
              [] branch = "queryname" -> { NameQueryReply(name.v) }
              [] branch = "weather"   ->
                    IF city = "" THEN { CityHelp }
                    ELSE { RenderWeather(city, Decoded[r]).text :
                             r \in { q \in RepliesTo[WeatherRequest(city)] :
                                       RenderWeather(city, Decoded[q]).ok } }
              [] branch = "vowel"     ->
                    IF word = "" THEN { WordHelp }
                    ELSE { RenderVowels(word, Decoded[r]).text :
                             r \in { q \in RepliesTo[VowelRequest(word)] :
                                       RenderVowels(word, Decoded[q]).ok } }
              [] branch = "system"    ->
                    { RenderSystem(lower, Decoded[r]).text :
                        r \in { q \in RepliesTo[SystemRequest(lower)] :
                                  RenderSystem(lower, Decoded[q]).ok } }
              [] branch = "fallback"  -> { FallbackReply }]]

\* The request of the call the loop is suspended at: the last one sent.
LastSent == sent[Len(sent)]

\* Every field of the argument record of a request is a non-empty string.
ArgumentsPresent(req) ==
    /\ req.arguments.t = "dict"
    /\ req.arguments.v # << >>
    /\ \A k \in DOMAIN req.arguments.v :
          /\ req.arguments.v[k][2].t = "str"
          /\ req.arguments.v[k][2].v # ""

(***************************************************************************)
(* C1                                                                      *)
(***************************************************************************)

\* C1: whatever the provider replies to a clause's call (a record, a string
\* that is not JSON, an empty envelope), no exception ends the loop (only a
\* broken channel, which is no reply, is left aside), and a turn that prints
\* has one rendered string per clause.
C1_EveryReplyRendered ==
    /\ error \in { "none", "ChannelError" }
    /\ printed.done => Len(responses) = Len(parts)

\* A string reply to count_vowels: the loop has ended on TypeError with the
\* clause unanswered.
C1_StringReplyEndsLoop ==
    /\ error = "TypeError"
    /\ pc = "closing"
    /\ trace # << >>
    /\ trace[Len(trace)].branch = "vowel"
    /\ Len(responses) < Len(parts)

(***************************************************************************)
(* C2                                                                      *)
(***************************************************************************)

\* C2: when a turn has printed, the printed reply is the responses joined by
\* a blank line, there is one response per non-empty comma-separated segment
\* of the utterance, and the k-th response is a rendering of the k-th segment.
C2_ReplyIsJoinInOrder ==
    printed.done =>
        LET segments == Segment(user_input)
        IN  /\ printed.text = Join(responses, "\n\n")
            /\ Len(responses) = Len(segments)
            /\ Len(trace) = Len(segments)
            /\ \A k \in DOMAIN segments :
                  /\ trace[k].clause = segments[k]
                  /\ responses[k] \in RenderingsOf[segments[k]][trace[k].name]

\* A turn of three clauses, one of them answered by the provider, has printed.
C2_ThreeClausesPrinted ==
    /\ printed.done
    /\ Len(responses) = 3
    /\ sent # << >>
    /\ responses[1] = GreetingReply
    /\ responses[2] # responses[3]

(***************************************************************************)
(* C3                                                                      *)
(***************************************************************************)

\* C3 as stated: for any two clauses and any stored name, the line "c1, c2"
\* yields the same responses, the same requests and the same stored name (and
\* the same end of the loop) as c1 and c2 read as two lines.
C3_TwoTurnsAsOne ==
    (plan.on /\ plan.phase = "split" /\ RunFinished) => RunResult = plan.joined

\* C3, amended: the same, for clauses neither of which is the word exit in
\* any letter case.
C3_TwoTurnsAsOneUnlessExit ==
    (plan.on /\ plan.phase = "split" /\ RunFinished
        /\ ~IsExitOf[plan.c1] /\ ~IsExitOf[plan.c2]) => RunResult = plan.joined

\* Both runs are over for a name-setting clause followed by a clause that
\* calls the provider.
C3_BothRunsOver ==
    /\ plan.on
    /\ plan.phase = "split"
    /\ RunFinished
    /\ ~IsExitOf[plan.c1]
    /\ ~IsExitOf[plan.c2]
    /\ Len(RunResult.responses) = 2
    /\ Len(RunResult.sent) = 1
    /\ plan.start.t = "None"
    /\ user_name.t = "str"
    /\ Len(plan.joined.responses) = 2

(***************************************************************************)
(* C4                                                                      *)
(***************************************************************************)

\* C4: the branch that handles a clause is a function of the clause text
\* alone, the same whatever name is stored, and a clause that contains
\* "my name" and does not match the name pattern is handled as a name query.
C4_IntentFromTextAlone ==
    \A k \in DOMAIN trace :
        /\ \A name \in StoredNames : BranchOf[trace[k].clause][name] = trace[k].branch
        /\ NameQueryOf[trace[k].clause] => trace[k].branch = "queryname"

\* A clause containing "my name" was handled by the weather branch while no
\* name was stored.
C4_NameClauseTakenAsWeather ==
    /\ trace # << >>
    /\ NameQueryOf[trace[1].clause]
    /\ trace[1].name.t = "None"
    /\ trace[1].branch = "weather"

(***************************************************************************)
(* C5                                                                      *)
(***************************************************************************)

\* C5: the response to a name-query clause shows the stored name when there
\* is one, and when there is none it is a reply of its own, not the reply
\* given to clauses that are not understood.
C5_NameRecalledOrUnknown ==
    \A k \in DOMAIN trace :
        (k <= Len(responses) /\ NameQueryOf[trace[k].clause]) =>
            IF trace[k].name.t # "None"
            THEN responses[k] = NameQueryReply(trace[k].name.v)
            ELSE responses[k] # FallbackReply

\* A name query before any name was set has been answered with the reply for
\* clauses that are not understood.
C5_QueryBeforeSetFallsBack ==
    /\ trace # << >>
    /\ responses # << >>
    /\ NameQueryOf[trace[1].clause]
    /\ trace[1].name.t = "None"
    /\ trace[1].branch = "fallback"
    /\ responses[1] = FallbackReply

(***************************************************************************)
(* C6                                                                      *)
(***************************************************************************)

\* C6: no call is awaited for a clause that is a greeting, matches the name
\* pattern or contains "my name".
C6_NameClausesCallNoTool ==
    pc \in AwaitPcs =>
        ~(IsGreeting(P) \/ NameOf[Part].found \/ NameQueryOf[Part])

\* get_weather is awaited for a clause that contains "my name", no name stored.
C6_NameClauseCallsWeather ==
    /\ pc = "weather_call"
    /\ NameQueryOf[Part]
    /\ user_name.t = "None"
    /\ requests # << >>
    /\ Head(requests).tool = "get_weather"

(***************************************************************************)
(* C7                                                                      *)
(***************************************************************************)

\* C7: every request sent has all its argument fields non-empty; a weather
\* clause without a city and a vowel clause without a word await no call and
\* are answered by their help message.
C7_ArgumentsNeverEmpty ==
    /\ \A k \in DOMAIN sent : ArgumentsPresent(sent[k])
    /\ \A k \in DOMAIN requests : ArgumentsPresent(requests[k])
    /\ pc = "weather_call" => City # ""
    /\ pc = "vowel_call" => Word # ""
    /\ \A k \in DOMAIN trace :
          k <= Len(responses) =>
              /\ (trace[k].branch = "weather" /\ CityOf[trace[k].clause].city = "")
                    => responses[k] = CityHelp
              /\ (trace[k].branch = "vowel" /\ WordOf[trace[k].clause] = "")
                    => responses[k] = WordHelp

\* A turn of a weather clause without a city and a vowel clause without a
\* word has printed both help messages and sent nothing.
C7_BothHelpMessages ==
    /\ printed.done
    /\ Len(trace) = 2
    /\ trace[1].branch = "weather"
    /\ trace[2].branch = "vowel"
    /\ responses = << CityHelp, WordHelp >>
    /\ sent = << >>

(***************************************************************************)
(* C8                                                                      *)
(***************************************************************************)

\* C8: for a clause "vowels in w", count_vowels is called with text w, and
\* the response to the provider's record shows the count and letters of w.
C8_VowelWordIntact ==
    /\ (pc = "vowel_call" /\ MatchAt(Part, 1, "vowels in "))
          => Argument(LastSent, "text") = From(Part, 11)
    /\ \A k \in DOMAIN trace :
          (k <= Len(responses) /\ trace[k].branch = "vowel"
              /\ MatchAt(trace[k].clause, 1, "vowels in "))
          => responses[k] = RenderVowels(From(trace[k].clause, 11),
                                count_vowels(From(trace[k].clause, 11))).text

\* count_vowels is awaited for "vowels in india" with a text that is not india.
C8_WordCutShort ==
    /\ pc = "vowel_call"
    /\ Part = "vowels in india"
    /\ Argument(LastSent, "text") = "dia"

(***************************************************************************)
(* C9                                                                      *)
(***************************************************************************)

\* C9: the city sent to get_weather is the captured name title-cased, and
\* Hyderabad for the captured name hydrabad.
C9_CityTitleCasedAndCorrected ==
    pc = "weather_call" =>
        Argument(LastSent, "city") =
            IF Title(City) = "Hydrabad" THEN "Hyderabad" ELSE Title(City)

\* get_weather is awaited for "weather in Hydrabad" with the city in lower
\* case and uncorrected.
C9_CitySentLowerCase ==
    /\ pc = "weather_call"
    /\ Part = "weather in Hydrabad"
    /\ Argument(LastSent, "city") = "hydrabad"

(***************************************************************************)
(* C10                                                                     *)
(***************************************************************************)

\* C10: at most one request is unanswered or its reply unread; it is the last
\* request sent and its reply is a reply to that request; and while the loop
\* is between clauses or waits for input nothing is outstanding, so that a
\* request is only sent once the reply to the one before has been read.
C10_OneRequestOutstanding ==
    /\ Len(requests) + Len(replies) <= 1
    /\ requests # << >> => (sent # << >> /\ Head(requests) = LastSent)
    /\ replies # << >> => (sent # << >> /\ Head(replies) \in RepliesTo[LastSent])
    /\ pc \in { "clause", "input" } => (requests = << >> /\ replies = << >>)

\* The reply to the second request of the second turn waits to be read.
C10_SecondReplyArrived ==
    /\ pc \in AwaitPcs
    /\ replies # << >>
    /\ requests = << >>
    /\ Len(sent) = 2
    /\ turn = 2

(***************************************************************************)
(* C11                                                                     *)
(***************************************************************************)

\* C11: a call is awaited, a clause is processed and a line is waited for
\* only while the session is initialized and not released; before the
\* handshake has completed no line has been read and no request sent; a
\* released session belongs to a process that has ended; and every step that
\* reads a line or sends a request starts and ends in the initialized session.
C11_CallsInsideLiveWindow ==
    /\ [](/\ pc \in AwaitPcs \cup { "clause", "input" } => session = "ready"
          /\ session \in { "closed", "open" } =>
                (turn = 0 /\ user_input = "" /\ sent = << >> /\ requests = << >>)
          /\ session = "released" => pc = "done")
    /\ [][(sent' # sent \/ requests' # requests \/ user_input' # user_input \/ turn' # turn)
             => (session = "ready" /\ session' = "ready")]_vars

\* In the second turn a request is awaited in the initialized session.
C11_RequestInLiveWindow ==
    /\ pc \in AwaitPcs
    /\ session = "ready"
    /\ requests # << >>
    /\ turn = 2

(***************************************************************************)
(* C12                                                                     *)
(***************************************************************************)

\* C12: a process that has ended has released its session, whether the loop
\* ended on exit or on an exception; once the loop has ended the next step of
\* main is the release; the loop leaves the prompt for the end exactly when
\* the line read is exit in some letter case, and that step prints nothing,
\* appends no response and writes no request.
C12_ReleasedOnEveryExit ==
    /\ [](pc = "done" => session = "released")
    /\ [][(pc = "closing" /\ pc' # pc) => (pc' = "done" /\ session' = "released")]_vars
    /\ [][(pc = "input" /\ pc' # pc) =>
             /\ pc' = "closing" <=> (Len(user_input') = 4 /\ Lower(user_input') = "exit")
             /\ pc' = "closing" =>
                   /\ ~printed'.done
                   /\ responses' = responses
                   /\ sent' = sent
                   /\ requests = << >>
                   /\ requests' = << >>]_vars

\* The process has ended on an exception raised inside a turn, its session
\* released.
C12_ReleasedAfterException ==
    /\ pc = "done"
    /\ session = "released"
    /\ error = "TypeError"
    /\ Len(responses) < Len(parts)

(***************************************************************************)
(* C13                                                                     *)
(***************************************************************************)

\* C13: what the decoder returns is a record, a string or None; it is None
\* exactly for an envelope without content; it is a record when the joined
\* text parses as a record and a string when the joined text does not parse.
C13_DecodeThreeShapes ==
    decoded.t # "unbound" =>
        LET parsed == JsonLoads(Strip(JoinedText))
        IN  /\ decoded.t \in { "dict", "str", "None" }
            /\ decoded.t = "None" <=> envelope.content = << >>
            /\ envelope.content # << >> =>
                  /\ (parsed.ok /\ parsed.v.t = "dict") => decoded.t = "dict"
                  /\ ~parsed.ok => decoded.t = "str"

\* An envelope whose one fragment is the text null has been decoded to None.
C13_NullTextDecodesToNone ==
    /\ decoded.t = "None"
    /\ Len(envelope.content) = 1
    /\ JoinedText = "null"

(***************************************************************************)
(* C14                                                                     *)
(***************************************************************************)

\* C14: an envelope whose joined text is the encoding of a record decodes to
\* that record, field by field; an envelope whose joined text is no encoding
\* of a record decodes to that text, character for character; the fragments
\* are joined by newlines before parsing.
C14_DecodeRoundTrip ==
    (decoded.t # "unbound" /\ envelope.content # << >>) =>
        LET text == JoinedText
            parsed == JsonLoads(text)
        IN  /\ \A r \in Records :
                  text = JsonDumps(r) => (decoded.t = "dict" /\ PyRepr(decoded) = PyRepr(r))
            /\ ~(parsed.ok /\ parsed.v.t = "dict") => (decoded.t = "str" /\ decoded.v = text)

\* Text with white space around it has been decoded to the text without it.
C14_TextLosesWhiteSpace ==
    /\ decoded.t = "str"
    /\ Len(envelope.content) = 1
    /\ JoinedText = " not json\n"
    /\ decoded.v = "not json"


(***************************************************************************)
(* C15: segmentation of an utterance without a comma                       *)
(***************************************************************************)

\* C15: for every utterance that contains no comma, the empty and the
\* whitespace-only utterance included, segmentation returns exactly one
\* clause, and that clause is the utterance with leading and trailing white
\* space removed.  (user_input is the trimmed utterance, parts the result of
\* the segmentation, both set when the line is read.)
C15_NoCommaOneClause ==
    (pc = "clause" /\ ~Contains(user_input, ","))
        => parts = << user_input >>

\* The empty line was read as a turn: it has no clause at all.
C15_EmptyLineHasNoClause ==
    /\ pc = "clause"
    /\ turn >= 1
    /\ user_input = ""
    /\ parts = << >>


(***************************************************************************)
(* C16: a failure of the channel ends the session                          *)
(***************************************************************************)

\* C16: a channel-level failure during a tool invocation is fatal to the
\* session: from the failure on main is on its way out (the exception
\* leaves the loop and reaches the caller of main as the diagnostic), no
\* request is sent or re-sent, neither for the remaining clauses nor for a
\* later utterance, no further utterance is read and no reply is printed.
C16_ChannelFailureIsFatal ==
    /\ [](error = "ChannelError" => (pc \in { "closing", "done" } /\ ~printed.done))
    /\ [][error' = "ChannelError"
            => /\ sent' = sent
               /\ Len(requests') <= Len(requests)
               /\ user_input' = user_input
               /\ turn' = turn
               /\ parts' = parts
               /\ responses' = responses]_vars
    /\ [][error = "ChannelError" => error' = "ChannelError"]_vars

\* The channel failed at the first of two tool clauses of the second turn,
\* and main has returned: the second clause was never processed.
C16_FailedWithClausesLeft ==
    /\ pc = "done"
    /\ session = "released"
    /\ error = "ChannelError"
    /\ turn = 2
    /\ Len(parts) = 2
    /\ idx = 1
    /\ Len(sent) = 1
    /\ BranchOf[parts[2]][PyNone] \in { "weather", "vowel", "system" }


(***************************************************************************)
(* C17: the phrases that set the name                                      *)
(***************************************************************************)

\* C17: a clause in which "my name is", "i am" or "iam" is immediately
\* followed by a word token, in any letter case, is handled by the name-set
\* branch, and the name stored by it is that token capitalized.
C17_ThreeNameTriggers ==
    \A k \in DOMAIN trace :
        LET low == LowerOf[trace[k].clause]
            tokens == { << j, t >> \in (1..Len(low)) \X { "my name is ", "i am ", "iam " } :
                           MatchAt(low, j, t) /\ IsWord(Char(low, j + Len(t))) }
            first == CHOOSE m \in tokens : \A n \in tokens : m[1] <= n[1]
            start == first[1] + Len(first[2])
            token == SubSeq(low, start, RunEnd(low, start, "word"))
        IN  tokens # {} =>
                /\ trace[k].branch = "setname"
                /\ k = Len(trace) => (user_name.t = "str" /\ user_name.v = Capitalize(token))

\* "I am Asha" was typed while no name was stored: it was not understood,
\* and no name is stored.
C17_IAmNotUnderstood ==
    /\ trace # << >>
    /\ responses # << >>
    /\ trace[1].clause = "I am Asha"
    /\ trace[1].branch = "fallback"
    /\ responses[1] = FallbackReply
    /\ user_name.t = "None"


(***************************************************************************)
(* C18: the system branch                                                  *)
(***************************************************************************)

\* C18: a clause handled by the system branch sends exactly one
\* system_diagnostics request, whose detail is the lower-cased clause: the
\* request is sent when the branch is entered and nothing is sent while its
\* reply is awaited or when it is read.  The section of the response is
\* chosen from the clause alone, "cpu" before "memory" or "ram" before
\* "disk" before the general section, whatever the reply was.
C18_SystemRequestAndSection ==
    /\ [](pc = "system_call" =>
            /\ Len(trace) = idx
            /\ trace[idx].branch = "system"
            /\ LastSent = SystemRequest(P))
    /\ [][(Len(trace') > Len(trace) /\ trace'[Len(trace')].branch = "system")
            => sent' = Append(sent, SystemRequest(LowerOf[parts[idx]]))]_vars
    /\ [][pc = "system_call" => sent' = sent /\ Len(requests') <= Len(requests)]_vars
    /\ [][(pc = "system_call" /\ responses' # responses)
            => LET title == IF Contains(P, "cpu") THEN "CPU Info:"
                            ELSE IF Contains(P, "memory") \/ Contains(P, "ram")
                                 THEN "Memory Info:"
                            ELSE IF Contains(P, "disk") THEN "Disk Info:"
                            ELSE "System Info:"
               IN  /\ responses' = Append(responses, responses'[Len(responses')])
                   /\ MatchAt(responses'[Len(responses')], 1, title \o "\n")]_vars

\* A clause naming the disk and then the cpu was answered with the cpu
\* section, after one request carrying the lower-cased clause.
C18_CpuBeforeDisk ==
    /\ pc = "clause"
    /\ trace # << >>
    /\ trace[1].clause = "disk and CPU usage"
    /\ trace[1].branch = "system"
    /\ sent = << SystemRequest("disk and cpu usage") >>
    /\ Len(responses) = 1
    /\ MatchAt(responses[1], 1, "CPU Info:")


(***************************************************************************)
(* C19: the stored name has one writer                                     *)
(***************************************************************************)

\* C19: the stored name changes only in a step that processes a clause
\* matching the name pattern, taken by the name-set branch; the steps of
\* every other branch, the reading of a reply, of a line or of "exit", and
\* the steps of the provider leave it as it is; and once a name is stored
\* the name is never absent again.
C19_NameHasOneWriter ==
    /\ [][(user_name'.t # user_name.t \/ (user_name.t = "str" /\ user_name'.v # user_name.v))
            => /\ pc = "clause"
               /\ idx <= Len(parts)
               /\ NameOf[parts[idx]].found
               /\ Len(trace') = Len(trace) + 1
               /\ trace'[Len(trace')].branch = "setname"
               /\ user_name'.t = "str"]_vars
    /\ [][user_name.t = "str" => user_name'.t = "str"]_vars

\* A name was stored in the first turn; the second turn asked for it and for
\* the weather, the reply was read and printed, and the name is still there.
C19_NameKeptAcrossToolReply ==
    /\ turn = 2
    /\ printed.done
    /\ Len(trace) = 2
    /\ trace[1].branch = "queryname"
    /\ trace[2].branch = "weather"
    /\ Len(sent) = 1
    /\ user_name.t = "str"
    /\ user_name.v = "Bob"


(***************************************************************************)
(* C20: every turn is resolved when the provider answers                   *)
(***************************************************************************)

\* C20: when the provider answers every request with the structured record
\* of its tool, every utterance that began a turn leads to its reply being
\* printed and main waiting for the next line; the reply is printed once
\* per turn; a turn has sent at most one request per clause it entered.
\* While a call is awaited and no reply has arrived main does not move:
\* the turn is not completed, nothing is printed and no line is read,
\* however long the provider takes.
C20_TurnResolved ==
    /\ (pc = "clause") ~> (pc = "input" /\ printed.done)
    /\ [](Len(sent) <= Len(trace) /\ Len(trace) <= Len(parts))
    /\ [][printed' # printed
            => \/ pc = "clause" /\ pc' = "input" /\ ~printed.done /\ printed'.done
               \/ pc = "input" /\ ~printed'.done]_vars
    /\ [][(pc \in AwaitPcs /\ replies = << >>)
            => /\ pc' = pc
               /\ turn' = turn
               /\ user_input' = user_input
               /\ responses' = responses
               /\ printed' = printed
               /\ sent' = sent]_vars

\* A turn of two tool clauses was resolved: two requests, two replies read,
\* one reply printed, and main is back at input().
C20_TwoCallsResolved ==
    /\ oracle = "record"
    /\ pc = "input"
    /\ printed.done
    /\ Len(parts) = 2
    /\ Len(sent) = 2
    /\ Len(responses) = 2
    /\ requests = << >>
    /\ replies = << >>
    /\ turn = 2

====
